---- MODULE Spec2Model ----
(***************************************************************************)
(* Model of exec_every.h: call-site scoped timers (LocalHandle), the       *)
(* decision procedure every_if_throttled_impl with its three policies,     *)
(* the Maybe result container, Maybe::force and exec::reset.               *)
(*                                                                         *)
(* Time: `clock` is the real time elapsed since power-up (unbounded); the  *)
(* program only ever sees millis(), the clock truncated to the word width, *)
(* which is scaled down from 2^32 to Modulus.                              *)
(***************************************************************************)
EXTENDS Integers, FiniteSets, Sequences, TLC

\* ------------------------------------------------------------- bounds ----
Modulus      == 4    \* the uint32_t range 2^32, scaled down
MaxTime      == 6    \* the clock stops advancing here (more than one wrap)
MaxStep      == 2    \* largest clock advance between two operations
MaxInterval  == 2    \* intervals passed to a poll are 0..MaxInterval
MaxInitDelay == 1    \* clock advance between the two millis() reads of a first poll
MaxForceDt   == 1    \* arguments passed to force() are 0..MaxForceDt
MaxDepth     == 2    \* polls of one call site nested in each other

\* ------------------------------------------------------ value domains ----
Sites     == {"a", "b"}                 \* call sites (distinct Tag instantiations)
Slots     == {"m", "n"}                 \* Maybe variables of the calling code
Policies  == {"every", "every_if", "throttled", "every_if_throttled"}
RetKinds  == {"value", "void"}          \* Ret of the site's callback
\* callables passed as the callback argument; "f" is the one of the first poll
Callbacks == {"f", "g"}
Values    == {"x", "y"}                 \* values a non-void callback may return
Intervals == {i \in 0..MaxInterval : i < Modulus}
NoValue   == "none"                     \* no payload (empty box, or Maybe<void>)
NullHandle == "null"                    \* nullptr as a Handle
NoSite    == "nosite"                   \* no call site involved
\* a slot holding no Maybe object (variable not declared, or out of scope)
NoMaybe   == [has |-> FALSE, handle |-> NoSite, val |-> NoValue]
Never     == -1                         \* a time stamp not yet set
Off       == -1                         \* a scenario that was departed from
\* nothing observed yet:
\*   born   real time at which the handle of the observed site was constructed
\*   s13, s14   the number of polls performed, as long as the operations
\*          performed are exactly the first polls of Scenario13, Scenario14
\*   fixed  the interval the site is polled with, where it is polled with one
\*          interval throughout
\*   gap    the time that passed since the latest poll of the site
\*   prev   the interval passed to the poll before the latest poll of the
\*          site, where the two followed each other directly
\*   first  the clock reading the handle of the site was constructed with
\*   sum    the dt values the callback of the site was given by its polls,
\*          added up as a uint32_t accumulator adds them
NoHist    == [born |-> Never, s13 |-> 0, s14 |-> 0, fixed |-> Never, gap |-> 0,
              prev |-> Never, first |-> Never, sum |-> 0]

VARIABLES
  clock,    \* real time
  policy,   \* policy[s]: which entry point the call site s invokes (fixed)
  retKind,  \* retKind[s]: whether the callback type of s returns a value (fixed)
  handle,   \* handle[s]: the static LocalHandle of s: constructed, last, f, millis
  maybe,    \* maybe[k]: the Maybe object held in slot k, or NoMaybe
  lastTrue, \* history: lastTrue[s] is the real time at which last was set
  lastBy,   \* history: what set it: "ctor", "fire", "miss" or "reset"
  lastFire, \* history: lastFire[s] is the real time of the latest firing poll
  waiting,  \* history: a poll of s was held back by its throttle condition
  ev,       \* history: the operation just performed and what it did
  hist,     \* history kept by the observed specifications only (see Observe)
  stack     \* the polls of a call site that have begun and not returned,
            \* innermost last (kept where polls nest only, see PollBegin)

vars == <<clock, policy, retKind, handle, maybe, lastTrue, lastBy, lastFire, waiting, ev,
         hist, stack>>

\* uint32_t millis(): the clock as the program reads it
millis == clock % Modulus

\* The clock functions a call site can be instantiated with: millis, and
\* an alternate counter of the same width (the millisFunc of the *_with
\* macros) that is AltOffset ahead of millis.
AltOffset   == 1
MillisFuncs == {"millis", "altMillis"}

\* what the clock function fn returns at real time t
Read(fn, t) == IF fn = "altMillis" THEN (t + AltOffset) % Modulus ELSE t % Modulus

\* the MillisFunc template argument of call site s: site b is written with
\* a *_with macro and the alternate counter, every other site with millis
MillisOf(s) == IF s = "b" THEN "altMillis" ELSE "millis"

\* a subtraction that does not wrap
dt_signed(now, last) == now - last

\* LocalHandle::dt: uint32_t subtraction
dt(now, last) == (now - last) % Modulus

\* ----------------------------------------------------------- Maybe ----
\* Maybe(HandleBase*): has(false)
empty(h) == [has |-> FALSE, handle |-> h, val |-> NoValue]

\* Maybe(HandleBase*, ValueType&&): has(true), box constructed
value(h, v) == [has |-> TRUE, handle |-> h, val |-> v]

\* Maybe<void>{h}: the flag left at its default
voidValue_unset(h) == [has |-> FALSE, handle |-> h, val |-> NoValue]

\* Maybe<void>(handle, true)
voidValue(h) == [has |-> TRUE, handle |-> h, val |-> NoValue]

valid(m) == m.has

getHandle(m) == m.handle

\* Maybe::reset(): destroys the box if there is one
MaybeReset(m) == IF m.has THEN [m EXCEPT !.has = FALSE, !.val = NoValue] ELSE m

\* RunAndReturn<Ret>::run, after invoke(f, dt, 0) returned v
RunAndReturn(kind, h, v) == IF kind = "void" THEN voidValue(h) ELSE value(h, v)

\* what invoke(f, dt, 0) returns for a callback type of the given kind
Returned(kind, v) == IF kind = "void" THEN NoValue ELSE v

\* force() written without an argument
Omitted == -1

\* ---------------------------------------------------- history record ----
\* ev describes the operation just performed:
\*   op, site, slot   which operation, on which call site and Maybe variable
\*   src              the source variable of a copy or move
\*   interval, cond, cond2   the arguments of the poll: the interval; the
\*                    condition of every_if and throttled (for the general
\*                    procedure cond is runCondition, cond2 throttleCondition)
\*   now, last        the clock reading of the poll and `last` before it
\*   elapsed          real time since `last` was set, before the operation
\*   sinceFire        real time since the previous firing poll, or Never
\*   by               what had set `last` before the operation
\*   waited           an earlier poll was past the interval but held back by
\*                    the throttle condition, and `last` was not set since
\*   dt               the elapsed time the poll computed
\*   evalT, evalR     evaluations of the throttle and the run condition
\*   passed           the callable passed as the callback argument of a poll
\*   steps            what the poll did, in order, each with the value it
\*                    was given: "throttle" and "run" (a condition evaluated
\*                    with dt), "reset" (last set to a reading), "call"
\*   calls, callee, arg, ret   callback invocations, which callable, with
\*                    which argument, returning what
\*   given            the argument force() was written with, or Omitted
\*   depth            the polls of the site that had begun and not returned
\*                    when the operation began
\*   since            real time since the enclosing poll read the clock, or
\*                    Never where no poll encloses the operation
\*   out              what force() returned
NoEv == [op |-> "init", site |-> NoSite, slot |-> "none", src |-> "none",
         interval |-> 0, cond |-> FALSE, cond2 |-> FALSE,
         now |-> 0, last |-> 0, elapsed |-> 0, sinceFire |-> Never, by |-> "none",
         waited |-> FALSE,
         dt |-> 0, evalT |-> 0, evalR |-> 0,
         passed |-> "none", steps |-> <<>>, given |-> Omitted,
         depth |-> 0, since |-> Never,
         calls |-> 0, callee |-> "none", arg |-> 0, ret |-> NoValue,
         out |-> NoValue]

\* -------------------------------------------------------- the core ----
\* a strict comparison in the interval test
Due_strict(d, interval) == d > interval

\* an interval test against one interval, whatever the poll passes
Due_fixed(d, interval) == d >= MaxInterval

\* an interval test that passes once any time has elapsed
Due_any(d, interval) == d >= 0

\* the interval test of the decision
Due(d, interval) == d >= interval

\* a handle whose timer starts at zero, not at the clock reading
LocalHandle_zero(fn, cb) == [constructed |-> TRUE, last |-> 0, f |-> cb, millis |-> fn]

\* LocalHandle(MillisFunc millis), LocalHandle(Callback f): last(millis()),
\* millis(millis), f(the callback)
LocalHandle(fn, cb) ==
  [constructed |-> TRUE, last |-> Read(fn, clock), f |-> cb, millis |-> fn]

\* a handle that takes over the callback argument of every poll
StaticHandle_rebinding(fn, h, cb) ==
  IF h.constructed THEN [h EXCEPT !.f = cb] ELSE LocalHandle(fn, cb)

\* static LocalHandle handle{millis, forward(callback)}: constructed from the
\* callback argument when control passes the declaration for the first
\* time, and left as it is ever after
StaticHandle(fn, h, cb) == IF h.constructed THEN h ELSE LocalHandle(fn, cb)

\* a reset that leaves the timer as it is
ResetTo_never(h, now) == h

\* a reset that moves the timer on by one period of the shortest interval,
\* so that periods missed are made up by later polls
ResetTo_catchup(h, now) == [h EXCEPT !.last = (@ + 1) % Modulus]

\* LocalHandle::reset(uint32_t now)
ResetTo(h, now) == [h EXCEPT !.last = now]

\* no callback invocation: the handle as it is, the empty Maybe of site s
NoCall(s, h) == [handle |-> h, calls |-> 0, callee |-> "none", arg |-> 0,
                 ret |-> NoValue, result |-> empty(s)]

\* an exec that hands the callback the elapsed time of the handle as it is
\* when the callback runs
exec_fresh_dt(s, h, d, v) ==
  [handle |-> h,
   calls |-> 1, callee |-> h.f, arg |-> dt(h.last, h.last),
   ret |-> Returned(retKind[s], v),
   result |-> RunAndReturn(retKind[s], s, v)]

\* an exec that restarts the timer of the handle
exec_resetting(s, h, d, v) ==
  [handle |-> ResetTo(h, millis),
   calls |-> 1, callee |-> h.f, arg |-> d, ret |-> Returned(retKind[s], v),
   result |-> RunAndReturn(retKind[s], s, v)]

\* LocalHandle::exec(dt) of site s with handle record h: runs the stored
\* callback f with dt, which returns v, and wraps the outcome; the handle is
\* left as it is
exec(s, h, d, v) ==
  [handle |-> h,
   calls |-> 1, callee |-> h.f, arg |-> d, ret |-> Returned(retKind[s], v),
   result |-> RunAndReturn(retKind[s], s, v)]

\* the throttle condition evaluated before the interval test
every_if_throttled_impl_eval_first(s, h, now, interval, runCondition, throttleCondition, v) ==
  LET d    == dt(now, h.last)
      due  == Due(d, interval)
      thr  == throttleCondition /\ due
      ran  == thr /\ runCondition
      h1   == IF thr THEN ResetTo(h, now) ELSE h
      c    == IF ran THEN exec(s, h1, d, v) ELSE NoCall(s, h1)
  IN [reset  |-> thr,
      dt     |-> d,
      evalT  |-> 1,
      evalR  |-> IF thr THEN 1 ELSE 0,
      steps  |-> <<<<"throttle", d>>>>
                 \o (IF thr THEN <<<<"reset", now>>, <<"run", d>>>> ELSE <<>>)
                 \o (IF ran THEN <<<<"call", c.arg>>>> ELSE <<>>),
      call   |-> c]

\* the timer reset moved inside the run-condition branch
every_if_throttled_impl_late_reset(s, h, now, interval, runCondition, throttleCondition, v) ==
  LET d    == dt(now, h.last)
      due  == Due(d, interval)
      thr  == due /\ throttleCondition
      ran  == thr /\ runCondition
      h1   == IF ran THEN ResetTo(h, now) ELSE h
      c    == IF ran THEN exec(s, h1, d, v) ELSE NoCall(s, h1)
  IN [reset  |-> ran,
      dt     |-> d,
      evalT  |-> IF due THEN 1 ELSE 0,
      evalR  |-> IF thr THEN 1 ELSE 0,
      steps  |-> (IF due THEN <<<<"throttle", d>>>> ELSE <<>>)
                 \o (IF thr THEN <<<<"run", d>>>> ELSE <<>>)
                 \o (IF ran THEN <<<<"reset", now>>, <<"call", c.arg>>>> ELSE <<>>),
      call   |-> c]

\* every_if_throttled_impl after the static handle exists: the decision on
\* one poll.  h is the handle record, v what the callback returns if called.
every_if_throttled_impl(s, h, now, interval, runCondition, throttleCondition, v) ==
  LET d    == dt(now, h.last)
      due  == Due(d, interval)
      thr  == due /\ throttleCondition
      ran  == thr /\ runCondition
      h1   == IF thr THEN ResetTo(h, now) ELSE h
      c    == IF ran THEN exec(s, h1, d, v) ELSE NoCall(s, h1)
  IN [reset  |-> thr,
      dt     |-> d,
      evalT  |-> IF due THEN 1 ELSE 0,
      evalR  |-> IF thr THEN 1 ELSE 0,
      steps  |-> (IF due THEN <<<<"throttle", d>>>> ELSE <<>>)
                 \o (IF thr THEN <<<<"reset", now>>, <<"run", d>>>> ELSE <<>>)
                 \o (IF ran THEN <<<<"call", c.arg>>>> ELSE <<>>),
      call   |-> c]

every_impl(s, h, now, interval, v) ==
  every_if_throttled_impl(s, h, now, interval, TRUE, TRUE, v)

\* the condition handed over as the throttle condition
every_if_impl_throttling(s, h, now, interval, c, v) ==
  every_if_throttled_impl(s, h, now, interval, TRUE, c, v)

every_if_impl(s, h, now, interval, c, v) ==
  every_if_throttled_impl(s, h, now, interval, c, TRUE, v)

\* the condition handed over as the run condition
throttled_impl_running(s, h, now, interval, c, v) ==
  every_if_throttled_impl(s, h, now, interval, c, TRUE, v)

throttled_impl(s, h, now, interval, c, v) ==
  every_if_throttled_impl(s, h, now, interval, TRUE, c, v)

\* the macro of the call site: which entry point it expands to
Dispatch(s, h, now, interval, c, c2, v) ==
  CASE policy[s] = "every"     -> every_impl(s, h, now, interval, v)
    [] policy[s] = "every_if"  -> every_if_impl(s, h, now, interval, c, v)
    [] policy[s] = "throttled" -> throttled_impl(s, h, now, interval, c, v)
    [] OTHER -> every_if_throttled_impl(s, h, now, interval, c, c2, v)

\* ------------------------------------------------------------- Init ----
Init ==
  /\ clock = 0
  /\ policy \in [Sites -> Policies]
  /\ retKind \in [Sites -> RetKinds]
  /\ handle = [s \in Sites |-> [constructed |-> FALSE, last |-> 0, f |-> "none",
                                 millis |-> "none"]]
  /\ maybe = [k \in Slots |-> NoMaybe]
  /\ lastTrue = [s \in Sites |-> Never]
  /\ lastBy = [s \in Sites |-> "none"]
  /\ lastFire = [s \in Sites |-> Never]
  /\ waiting = [s \in Sites |-> FALSE]
  /\ ev = NoEv
  /\ hist = NoHist
  /\ stack = <<>>

\* ---------------------------------------------------------- actions ----
\* the clock advances between operations
Tick ==
  \E d \in 1..MaxStep :
    /\ clock + d <= MaxTime
    /\ clock' = clock + d
    /\ ev' = [NoEv EXCEPT !.op = "tick"]
    /\ UNCHANGED <<policy, retKind, handle, maybe, lastTrue, lastBy, lastFire, waiting>>

\* One poll of call site s, its result stored in slot k.  On the first poll
\* the static handle is constructed (last = millis(), f = the callback
\* argument) and millis() is read a second time for `now`.  The callback
\* argument cb of a later poll and the return value v are drawn only when
\* the callback is invoked; the first poll passes "f".
Poll(s, k) ==
  \E interval \in Intervals, c \in BOOLEAN, c2 \in BOOLEAN, d \in 0..MaxInitDelay :
    LET first == ~handle[s].constructed
        t     == IF first THEN clock + d ELSE clock
        now   == Read(MillisOf(s), t)
        p     == policy[s]
        pre   == Dispatch(s, StaticHandle(MillisOf(s), handle[s], "f"), now, interval, c, c2, "x")
        ran   == pre.call.calls = 1
    IN /\ first \/ d = 0
       /\ t <= MaxTime
       /\ p = "every" => c /\ c2
       /\ p \in {"every_if", "throttled"} => c2
       /\ \E cb \in (IF first \/ ~ran THEN {"f"} ELSE Callbacks),
             v \in (IF ran /\ retKind[s] = "value" THEN Values ELSE {"x"}) :
            LET h0 == StaticHandle(MillisOf(s), handle[s], cb)
            IN \E r \in {Dispatch(s, h0, now, interval, c, c2, v)} :
               /\ clock' = t
               /\ handle' = [handle EXCEPT ![s] = r.call.handle]
               /\ maybe' = [maybe EXCEPT ![k] = r.call.result]
               /\ lastTrue' = [lastTrue EXCEPT ![s] =
                                 IF r.reset THEN t ELSE IF first THEN clock ELSE @]
               /\ lastBy' = [lastBy EXCEPT ![s] =
                                 IF r.call.calls = 1 THEN "fire"
                                 ELSE IF r.reset THEN "miss"
                                 ELSE IF first THEN "ctor" ELSE @]
               /\ lastFire' = [lastFire EXCEPT ![s] =
                                 IF r.call.calls = 1 THEN t ELSE @]
               /\ waiting' = [waiting EXCEPT ![s] =
                                IF r.reset THEN FALSE
                                ELSE IF r.evalT = 1 THEN TRUE ELSE ~first /\ @]
               /\ ev' = [NoEv EXCEPT !.op = "poll", !.site = s, !.slot = k,
                            !.interval = interval, !.cond = c, !.cond2 = c2,
                            !.now = now, !.last = h0.last,
                            !.elapsed = IF first THEN t - clock ELSE t - lastTrue[s],
                            !.sinceFire = IF lastFire[s] = Never THEN Never
                                          ELSE t - lastFire[s],
                            !.by = IF first THEN "ctor" ELSE lastBy[s],
                            !.waited = ~first /\ waiting[s],
                            !.dt = r.dt, !.evalT = r.evalT, !.evalR = r.evalR,
                            !.steps = r.steps,
                            !.passed = cb,
                            !.calls = r.call.calls, !.callee = r.call.callee,
                            !.arg = r.call.arg, !.ret = r.call.ret]
               /\ UNCHANGED <<policy, retKind>>

\* Maybe(Maybe const &), and the defaulted copy of Maybe<void>
CopyCtor(kind, src) ==
  [has |-> src.has, handle |-> src.handle,
   val |-> IF kind # "void" /\ src.has THEN src.val ELSE NoValue]

\* Maybe(Maybe&&): the pair <<new object, source>> afterwards; the defaulted
\* move of Maybe<void> copies the members and leaves the source alone
MoveCtor(kind, src) ==
  IF kind = "void"
  THEN <<[has |-> src.has, handle |-> src.handle, val |-> NoValue], src>>
  ELSE <<[has |-> src.has, handle |-> src.handle,
          val |-> IF src.has THEN src.val ELSE NoValue],
         MaybeReset(src)>>

\* a copy assignment that takes over everything but the handle
CopyAssign_keeps_handle(kind, dst, src) ==
  LET d1 == IF kind # "void" /\ dst.has THEN MaybeReset(dst) ELSE dst
  IN [d1 EXCEPT !.has = src.has,
                !.val = IF kind # "void" /\ src.has THEN src.val ELSE NoValue]

\* operator=(Maybe const &) on distinct objects: the destination afterwards
CopyAssign(kind, dst, src) ==
  LET d1 == IF kind # "void" /\ dst.has THEN MaybeReset(dst) ELSE dst
  IN [d1 EXCEPT !.has = src.has, !.handle = src.handle,
                !.val = IF kind # "void" /\ src.has THEN src.val ELSE NoValue]

\* a move assignment that empties both objects
MoveAssign_drop(kind, dst, src) == <<MaybeReset(dst), MaybeReset(src)>>

\* operator=(Maybe&&) on distinct objects: the pair <<destination, source>>
\* afterwards
MoveAssign(kind, dst, src) ==
  LET d1 == IF kind # "void" /\ dst.has THEN MaybeReset(dst) ELSE dst
  IN IF kind = "void"
     THEN <<[d1 EXCEPT !.has = src.has, !.handle = src.handle], src>>
     ELSE <<[d1 EXCEPT !.has = src.has, !.handle = src.handle,
                       !.val = IF src.has THEN src.val ELSE NoValue],
            MaybeReset(src)>>

\* ForceReturn<R>::get
ForceReturn(kind, m) == IF kind = "void" THEN NoValue ELSE m.val

\* a force that does not look at the Maybe first
force_always(s, h, m, fdt, v) ==
  LET call == exec(s, h, fdt, v)
      m2   == MoveAssign(retKind[s], m, call.result)[1]
  IN [maybe |-> m2, call |-> call, out |-> ForceReturn(retKind[s], m2)]

\* a force that hands the callback the time elapsed on the timer of the
\* call site, whatever its argument
force_elapsed(s, h, m, fdt, v) ==
  IF valid(m)
  THEN [maybe |-> m, call |-> NoCall(s, h), out |-> ForceReturn(retKind[s], m)]
  ELSE LET call == exec(s, h, dt(Read(h.millis, clock), h.last), v)
           m2   == MoveAssign(retKind[s], m, call.result)[1]
       IN [maybe |-> m2, call |-> call, out |-> ForceReturn(retKind[s], m2)]

\* detail::force on the Maybe m of call site s, whose handle record is h
force(s, h, m, fdt, v) ==
  IF valid(m)
  THEN [maybe |-> m, call |-> NoCall(s, h), out |-> ForceReturn(retKind[s], m)]
  ELSE LET call == exec(s, h, fdt, v)
           m2   == MoveAssign(retKind[s], m, call.result)[1]
       IN [maybe |-> m2, call |-> call, out |-> ForceReturn(retKind[s], m2)]

\* force(uint32_t dt = 0): the argument detail::force receives
ForceArg(given) == IF given = Omitted THEN 0 ELSE given

\* a force whose outcome shows in every empty Maybe of the same call site,
\* as if the copies shared one state
Force_shared(k) ==
  LET m == maybe[k]
      s == getHandle(m)
  IN /\ m # NoMaybe
     /\ \E given \in (IF m.has THEN {Omitted} ELSE {Omitted} \cup 0..MaxForceDt),
           v \in (IF ~m.has /\ retKind[s] = "value" THEN Values ELSE {"x"}) :
          \E r \in {force(s, handle[s], m, ForceArg(given), v)} :
             /\ maybe' = [j \in Slots |->
                            IF j = k THEN r.maybe
                            ELSE IF /\ maybe[j] # NoMaybe
                                    /\ getHandle(maybe[j]) = s
                                    /\ ~valid(maybe[j])
                                 THEN r.maybe ELSE maybe[j]]
             /\ handle' = [handle EXCEPT ![s] = r.call.handle]
             /\ ev' = [NoEv EXCEPT !.op = "force", !.site = s, !.slot = k,
                          !.last = handle[s].last, !.given = given,
                          !.calls = r.call.calls, !.callee = r.call.callee,
                          !.arg = r.call.arg, !.ret = r.call.ret,
                          !.out = r.out]
             /\ UNCHANGED <<clock, policy, retKind, lastTrue, lastBy,
                            lastFire, waiting>>

\* Maybe::force(dt) on the Maybe in slot k.  The argument and the value the
\* callback returns are drawn only when the callback is invoked.
Force(k) ==
  LET m == maybe[k]
      s == getHandle(m)
  IN /\ m # NoMaybe
     /\ \E given \in (IF m.has THEN {Omitted} ELSE {Omitted} \cup 0..MaxForceDt),
           v \in (IF ~m.has /\ retKind[s] = "value" THEN Values ELSE {"x"}) :
          \E r \in {force(s, handle[s], m, ForceArg(given), v)} :
             /\ maybe' = [maybe EXCEPT ![k] = r.maybe]
             /\ handle' = [handle EXCEPT ![s] = r.call.handle]
             /\ ev' = [NoEv EXCEPT !.op = "force", !.site = s, !.slot = k,
                          !.last = handle[s].last, !.given = given,
                          !.calls = r.call.calls, !.callee = r.call.callee,
                          !.arg = r.call.arg, !.ret = r.call.ret,
                          !.out = r.out]
             /\ UNCHANGED <<clock, policy, retKind, lastTrue, lastBy,
                            lastFire, waiting>>

\* a reset() that restarts the timer from zero
HandleReset_zero(h) == ResetTo(h, 0)

\* a reset() that reads millis, whatever clock function the handle holds
HandleReset_default(h) == ResetTo(h, millis)

\* LocalHandle::reset(): reset(millis()), millis the member of the handle
HandleReset(h) == ResetTo(h, Read(h.millis, clock))

\* a reset that reaches the timer of every call site, as if the sites shared
\* one handle
Reset_shared(h) ==
  /\ h = NullHandle \/ (h \in Sites /\ handle[h].constructed)
  /\ IF h = NullHandle
     THEN UNCHANGED <<handle, lastTrue, lastBy, waiting>>
     ELSE /\ handle' = [s \in Sites |-> IF handle[s].constructed
                                         THEN HandleReset(handle[s]) ELSE handle[s]]
          /\ lastTrue' = [lastTrue EXCEPT ![h] = clock]
          /\ lastBy' = [lastBy EXCEPT ![h] = "reset"]
          /\ waiting' = [waiting EXCEPT ![h] = FALSE]
  /\ ev' = [NoEv EXCEPT !.op = "reset", !.site = h,
                !.now = IF h = NullHandle THEN millis ELSE Read(handle[h].millis, clock),
                !.last = IF h = NullHandle THEN 0 ELSE handle[h].last]
  /\ UNCHANGED <<clock, policy, retKind, maybe, lastFire>>

\* exec::reset(h): detail::reset calls h->reset() unless h is null;
\* LocalHandle::reset() is reset(millis())
Reset(h) ==
  /\ h = NullHandle \/ (h \in Sites /\ handle[h].constructed)
  /\ IF h = NullHandle
     THEN UNCHANGED <<handle, lastTrue, lastBy, waiting>>
     ELSE /\ handle' = [handle EXCEPT ![h] = HandleReset(@)]
          /\ lastTrue' = [lastTrue EXCEPT ![h] = clock]
          /\ lastBy' = [lastBy EXCEPT ![h] = "reset"]
          /\ waiting' = [waiting EXCEPT ![h] = FALSE]
  /\ ev' = [NoEv EXCEPT !.op = "reset", !.site = h,
                !.now = IF h = NullHandle THEN millis ELSE Read(handle[h].millis, clock),
                !.last = IF h = NullHandle THEN 0 ELSE handle[h].last]
  /\ UNCHANGED <<clock, policy, retKind, maybe, lastFire>>

\* the Ret of the Maybe type of a live Maybe object
KindOf(m) == retKind[getHandle(m)]

timerVars == <<clock, policy, retKind, handle, lastTrue, lastBy, lastFire, waiting, hist,
              stack>>

\* Maybe<T> dst(src);
CopyConstruct(dst, src) ==
  /\ dst # src /\ maybe[src] # NoMaybe /\ maybe[dst] = NoMaybe
  /\ maybe' = [maybe EXCEPT ![dst] = CopyCtor(KindOf(maybe[src]), maybe[src])]
  /\ ev' = [NoEv EXCEPT !.op = "copy_ctor", !.slot = dst, !.src = src]
  /\ UNCHANGED timerVars

\* Maybe<T> dst(move(src));
MoveConstruct(dst, src) ==
  /\ dst # src /\ maybe[src] # NoMaybe /\ maybe[dst] = NoMaybe
  /\ \E r \in {MoveCtor(KindOf(maybe[src]), maybe[src])} :
       maybe' = [maybe EXCEPT ![dst] = r[1], ![src] = r[2]]
  /\ ev' = [NoEv EXCEPT !.op = "move_ctor", !.slot = dst, !.src = src]
  /\ UNCHANGED timerVars

\* dst = src; both of one Maybe type.  Self-assignment returns at once.
CopyAssignTo(dst, src) ==
  /\ maybe[src] # NoMaybe /\ maybe[dst] # NoMaybe
  /\ KindOf(maybe[dst]) = KindOf(maybe[src])
  /\ maybe' = IF dst = src THEN maybe
              ELSE [maybe EXCEPT ![dst] =
                      CopyAssign(KindOf(maybe[src]), maybe[dst], maybe[src])]
  /\ ev' = [NoEv EXCEPT !.op = "copy_assign", !.slot = dst, !.src = src]
  /\ UNCHANGED timerVars

\* dst = move(src); both of one Maybe type.  Self-assignment returns at once.
MoveAssignTo(dst, src) ==
  /\ maybe[src] # NoMaybe /\ maybe[dst] # NoMaybe
  /\ KindOf(maybe[dst]) = KindOf(maybe[src])
  /\ \E r \in {MoveAssign(KindOf(maybe[src]), maybe[dst], maybe[src])} :
       maybe' = IF dst = src THEN maybe
                ELSE [maybe EXCEPT ![dst] = r[1], ![src] = r[2]]
  /\ ev' = [NoEv EXCEPT !.op = "move_assign", !.slot = dst, !.src = src]
  /\ UNCHANGED timerVars

\* Maybe::value_impl: box.obj, read without looking at has.  The box of an
\* empty Maybe was never constructed: what the read yields is undefined, any
\* bit pattern the storage holds (junk)
value_impl(m, junk) == IF m.has THEN m.val ELSE junk

\* m.value(), *m, m->: value_impl(box.obj) on the variable in slot k; not
\* declared by Maybe<void>
Value(k) ==
  /\ maybe[k] # NoMaybe
  /\ KindOf(maybe[k]) = "value"
  /\ \E junk \in (IF maybe[k].has THEN {NoValue} ELSE Values) :
       ev' = [NoEv EXCEPT !.op = "value", !.slot = k,
                 !.site = getHandle(maybe[k]),
                 !.out = value_impl(maybe[k], junk)]
  /\ UNCHANGED <<maybe, timerVars>>

\* the variable in slot k goes out of scope: ~Maybe()
Destroy(k) ==
  /\ maybe[k] # NoMaybe
  /\ maybe' = [maybe EXCEPT ![k] = NoMaybe]
  /\ ev' = [NoEv EXCEPT !.op = "destroy", !.slot = k]
  /\ UNCHANGED timerVars

\* One call site polled into one variable, forced and reset.
Next ==
  \/ Tick /\ UNCHANGED <<hist, stack>>
  \/ Poll("a", "m") /\ UNCHANGED <<hist, stack>>
  \/ Force("m") /\ UNCHANGED <<hist, stack>>
  \/ \E h \in {"a", NullHandle} : Reset(h) /\ UNCHANGED <<hist, stack>>

\* a program whose only call site is "a"
InitOneSite == Init /\ policy["b"] = "every" /\ retKind["b"] = "void"

Spec == InitOneSite /\ [][Next]_vars

\* One call site polled and reset but never forced: its callback runs in
\* firing polls only, so that lastFire is the time of its latest run.
NextPolls ==
  \/ Tick /\ UNCHANGED <<hist, stack>>
  \/ Poll("a", "m") /\ UNCHANGED <<hist, stack>>
  \/ Reset("a") /\ UNCHANGED <<hist, stack>>

SpecPolls == InitOneSite /\ [][NextPolls]_vars

\* ------------------------------------------------ observed call site ----
\* the call site whose history hist records
ObservedSite == "a"

\* Scenarios: the polls of a call site, in order; t the clock readings a
\* poll may be made at, interval and cond its arguments.  The first poll
\* of a scenario is the first poll of the site, made in one instant.
\* Scenario13, in units of 500 ms: interval 1000, polls at 500, 1000, 1500
\* and 2000.
Scenario13 == <<[t |-> {1}, interval |-> 2, cond |-> TRUE],
                [t |-> {2}, interval |-> 2, cond |-> TRUE],
                [t |-> {3}, interval |-> 2, cond |-> TRUE],
                [t |-> {4}, interval |-> 2, cond |-> TRUE]>>

\* Scenario14, in units of 500 ms: interval 500, a poll at 500 with the
\* condition false and a poll at 1200, which lies between 2 and 3 units,
\* with the condition true.
Scenario14 == <<[t |-> {1}, interval |-> 1, cond |-> FALSE],
                [t |-> {2, 3}, interval |-> 1, cond |-> TRUE]>>

\* the stage of a scenario after the step just taken, n being the stage
\* before it
Follows(script, n) ==
  IF ev'.op = "tick" THEN n
  ELSE IF /\ n \in 0..(Len(script) - 1)
          /\ ev'.op = "poll" /\ ev'.site = ObservedSite
          /\ clock' \in script[n + 1].t
          /\ ev'.interval = script[n + 1].interval
          /\ ev'.cond = script[n + 1].cond
          /\ n = 0 => clock' = clock
       THEN n + 1
       ELSE Off

\* what hist records of the step just taken
Observe ==
  /\ hist' = [hist EXCEPT
                !.born = IF /\ ev'.op = "poll" /\ ev'.site = ObservedSite
                            /\ ~handle[ObservedSite].constructed
                         THEN clock ELSE @,
                !.s13  = Follows(Scenario13, @),
                !.s14  = Follows(Scenario14, @)]
  /\ UNCHANGED stack

\* the one call site of Spec, with a callback returning nothing, observed
InitHist == InitOneSite /\ retKind["a"] = "void"

NextHist ==
  \/ Tick /\ Observe
  \/ Poll(ObservedSite, "m") /\ Observe
  \/ Force("m") /\ Observe
  \/ Reset(ObservedSite) /\ Observe

SpecHist == InitHist /\ [][NextHist]_vars

\* Two exec_every call sites of one callback type, each polled into its own
\* variable; the variables are copied, moved, forced and destroyed.  The
\* clock stands still meanwhile (but for the first polls): a poll with
\* interval 0 fires and returns a present Maybe, the others an empty one.
\* The payload of the variables is read, present or not.
InitMaybe ==
  /\ Init
  /\ \A s \in Sites : policy[s] = "every"
  /\ retKind["a"] = retKind["b"]

NextMaybe ==
  \/ Poll("a", "m") /\ UNCHANGED <<hist, stack>>
  \/ Poll("b", "n") /\ UNCHANGED <<hist, stack>>
  \/ \E k \in Slots : Force(k) /\ UNCHANGED <<hist, stack>>
  \/ \E dst \in Slots, src \in Slots : CopyConstruct(dst, src)
  \/ \E dst \in Slots, src \in Slots : MoveConstruct(dst, src)
  \/ \E dst \in Slots, src \in Slots : CopyAssignTo(dst, src)
  \/ \E dst \in Slots, src \in Slots : MoveAssignTo(dst, src)
  \/ \E k \in Slots : Destroy(k)
  \/ \E k \in Slots : Value(k)

SpecMaybe == InitMaybe /\ [][NextMaybe]_vars

\* --------------------------------------------- changing intervals ----
\* One call site with a callback returning nothing, polled with intervals
\* that change from poll to poll; hist.prev keeps the interval of the poll
\* made right before a poll.
PollDyn ==
  /\ Poll(ObservedSite, "m")
  /\ hist' = [hist EXCEPT !.prev = IF ev.op = "poll" THEN ev.interval ELSE Never]
  /\ UNCHANGED stack

NextDyn ==
  \/ Tick /\ UNCHANGED <<hist, stack>>
  \/ PollDyn

SpecDyn == InitHist /\ [][NextDyn]_vars

\* ------------------------------------------ a callback adding up dt ----
\* One exec_every call site that is polled and never reset or forced, with
\* a callback that adds the dt it is given to a uint32_t accumulator
\* (hist.sum); hist.first keeps the reading last was constructed with and
\* hist.born the real time of it.
PollSum ==
  /\ Poll(ObservedSite, "m")
  /\ hist' = [hist EXCEPT
                !.born  = IF handle[ObservedSite].constructed THEN @ ELSE clock,
                !.first = IF handle[ObservedSite].constructed THEN @ ELSE ev'.last,
                !.sum   = IF ev'.calls = 1 THEN (@ + ev'.arg) % Modulus ELSE @]
  /\ UNCHANGED stack

InitSum == InitOneSite /\ policy[ObservedSite] = "every"

NextSum ==
  \/ Tick /\ UNCHANGED <<hist, stack>>
  \/ PollSum

SpecSum == InitSum /\ [][NextSum]_vars

\* ----------------------------------------------------- nested polls ----
\* The run condition and the callback are code of the caller and may poll
\* the call site they belong to.  A poll then runs step by step: stack holds
\* the polls that have begun and not returned, each with
\*   early      it began inside another poll, with an interval above 0 and
\*              less than that interval after the other read the clock
\*   at, now    the real time at which it read the clock, and the reading
\*   todo       its steps from the one it is in onwards, by name (the head
\*              is the run condition or the callback being executed)
\*   result     the Maybe it returns once its steps are done
\* The steps of a poll and their order are those of the decision
\* (every_if_throttled_impl, field steps); the value the run condition
\* returns is drawn when the poll begins, and the value of a condition is
\* drawn only where the poll evaluates it.  The throttle condition is taken
\* not to poll.  The histories in real time are not kept here.

\* the steps that execute code of the caller
Reentrant == {"run", "call"}

\* the names of the steps of a poll, in order
StepNames(steps) == [i \in DOMAIN steps |-> steps[i][1]]

\* runs the steps of todo, of a poll that read now, on handle record h up to
\* the next step that executes code of the caller: reset(now) sets last
RECURSIVE RunSteps(_, _, _)
RunSteps(h, now, todo) ==
  IF todo = <<>> THEN [handle |-> h, todo |-> <<>>]
  ELSE IF Head(todo) \in Reentrant THEN [handle |-> h, todo |-> todo]
  ELSE RunSteps(IF Head(todo) = "reset" THEN ResetTo(h, now) ELSE h, now, Tail(todo))

\* the callback is entered by a poll whose remaining steps are todo
Calls(todo) == IF todo # <<>> /\ Head(todo) = "call" THEN 1 ELSE 0

\* A poll of call site s begins, at top level (result to slot k) or from
\* inside the run condition or the callback of a poll of s: the static
\* handle is constructed if this is the first poll, the clock is read, and
\* the poll runs until it returns or enters code of the caller.
PollBegin(s, k) ==
  \E interval \in Intervals, c \in BOOLEAN, c2 \in BOOLEAN, d \in 0..MaxInitDelay :
    LET first == ~handle[s].constructed
        t     == IF first THEN clock + d ELSE clock
        now   == Read(MillisOf(s), t)
        p     == policy[s]
        h0    == StaticHandle(MillisOf(s), handle[s], "f")
        since == IF stack = <<>> THEN Never ELSE t - stack[Len(stack)].at
    IN /\ Len(stack) < MaxDepth
       /\ first \/ d = 0
       /\ t <= MaxTime
       /\ p = "every" => c /\ c2
       /\ p \in {"every_if", "throttled"} => c2
       /\ \E r \in {Dispatch(s, h0, now, interval, c, c2, "x")} :
          \E q \in {RunSteps(h0, now, StepNames(r.steps))} :
            /\ r.evalT = 0 => c2
            /\ r.evalR = 0 => c
            /\ clock' = t
            /\ handle' = [handle EXCEPT ![s] = q.handle]
            /\ stack' = IF q.todo = <<>> THEN stack
                        ELSE Append(stack, [early |-> /\ stack # <<>> /\ interval > 0
                                                      /\ since < interval,
                                            at |-> t,
                                            now |-> now, todo |-> q.todo,
                                            result |-> r.call.result])
            /\ maybe' = IF q.todo = <<>> /\ stack = <<>>
                        THEN [maybe EXCEPT ![k] = r.call.result] ELSE maybe
            /\ ev' = [NoEv EXCEPT !.op = "poll", !.site = s, !.slot = k,
                         !.interval = interval, !.cond = c, !.cond2 = c2,
                         !.now = now, !.dt = r.dt, !.evalT = r.evalT,
                         !.steps = SubSeq(r.steps, 1, Len(r.steps) - Len(q.todo)),
                         !.calls = Calls(q.todo),
                         !.depth = Len(stack),
                         !.since = since]
            /\ UNCHANGED <<policy, retKind, lastTrue, lastBy, lastFire, waiting>>

\* The run condition or the callback of the innermost poll of s returns:
\* the poll runs on until it returns (at top level its result goes to slot
\* k) or enters code of the caller again.
PollResume(s, k) ==
  /\ stack # <<>>
  /\ LET top == stack[Len(stack)]
         out == SubSeq(stack, 1, Len(stack) - 1)
     IN \E q \in {RunSteps(handle[s], top.now, Tail(top.todo))} :
          /\ handle' = [handle EXCEPT ![s] = q.handle]
          /\ stack' = IF q.todo = <<>> THEN out
                      ELSE Append(out, [top EXCEPT !.todo = q.todo])
          /\ maybe' = IF q.todo = <<>> /\ out = <<>>
                      THEN [maybe EXCEPT ![k] = top.result] ELSE maybe
          /\ ev' = [NoEv EXCEPT !.op = IF q.todo = <<>> THEN "return" ELSE "resume",
                       !.site = s, !.slot = k,
                       !.calls = Calls(q.todo),
                       !.depth = Len(stack)]
          /\ UNCHANGED <<clock, policy, retKind, lastTrue, lastBy, lastFire, waiting>>

\* one call site of the general procedure (the policies are the procedure
\* with one or both conditions true) with a callback returning nothing
InitNested ==
  /\ InitOneSite
  /\ policy[ObservedSite] = "every_if_throttled"
  /\ retKind[ObservedSite] = "void"

NextNested ==
  \/ Tick /\ UNCHANGED <<hist, stack>>
  \/ PollBegin(ObservedSite, "m") /\ UNCHANGED hist
  \/ PollResume(ObservedSite, "m") /\ UNCHANGED hist

SpecNested == InitNested /\ [][NextNested]_vars

\* ------------------------------------------------- polled forever ----
\* A call site polled forever with one interval while time passes without
\* end.  The program sees clock readings only, so time is kept modulo
\* Modulus here and the histories in real time mean nothing.  Consecutive
\* polls are less than Modulus - interval apart: time does not pass
\* further before the next poll.
TickLive ==
  \E d \in 1..MaxStep :
    /\ hist.fixed # Never => hist.gap + d < Modulus - hist.fixed
    /\ clock' = (clock + d) % Modulus
    /\ ev' = [NoEv EXCEPT !.op = "tick"]
    /\ hist' = [hist EXCEPT !.gap = IF hist.fixed = Never THEN 0 ELSE @ + d]
    /\ UNCHANGED <<policy, retKind, handle, maybe, lastTrue, lastBy, lastFire, waiting,
                   stack>>

\* a poll with the interval of the first poll
PollLive ==
  /\ Poll(ObservedSite, "m")
  /\ hist.fixed # Never => ev'.interval = hist.fixed
  /\ hist' = [hist EXCEPT !.fixed = ev'.interval, !.gap = 0]
  /\ UNCHANGED stack

\* an exec_every or an exec_throttled call site, callback returning nothing
InitLive ==
  /\ InitOneSite
  /\ policy[ObservedSite] \in {"every", "throttled"}
  /\ retKind[ObservedSite] = "void"

NextLive == TickLive \/ PollLive

\* the loop keeps running and time keeps passing
SpecLive == InitLive /\ [][NextLive]_vars /\ WF_vars(TickLive) /\ WF_vars(PollLive)

\* Two call sites, an exec_every_if and an exec_throttled one, with callbacks
\* returning nothing, each polled into its own variable, forced and reset.
\* The clock advances during the first polls only.
InitSites ==
  /\ Init
  /\ policy["a"] = "every_if" /\ policy["b"] = "throttled"
  /\ \A s \in Sites : retKind[s] = "void"

NextSites ==
  \/ Poll("a", "m") /\ UNCHANGED <<hist, stack>>
  \/ Poll("b", "n") /\ UNCHANGED <<hist, stack>>
  \/ \E k \in Slots : Force(k) /\ UNCHANGED <<hist, stack>>
  \/ \E h \in Sites : Reset(h) /\ UNCHANGED <<hist, stack>>

SpecSites == InitSites /\ [][NextSites]_vars

\* ------------------------------------------------------------ claims ----
\* the operation just performed was a poll of call site s
PollAt(s) == ev.op = "poll" /\ ev.site = s

\* the elapsed time of the poll just performed, from the clock reading of
\* the poll and the value `last` had when the poll began
Elapsed == (millis - ev.last) % Modulus

\* the interval of the poll just performed had expired
Expired == Elapsed >= ev.interval

\* C1: a poll of an exec_every call site invokes the callback if and only
\* if (clock reading - last) >= interval, the difference taken in the width
\* of the clock; that is the real time since last was set as long as this
\* is less than one wrap of the clock.  A firing poll is at least the
\* interval later than the previous firing poll of the site.
C1_EveryFiresIffDue ==
  \A s \in Sites : (PollAt(s) /\ policy[s] = "every") =>
    /\ (ev.calls = 1) <=> Expired
    /\ ev.elapsed < Modulus => ((ev.calls = 1) <=> ev.elapsed >= ev.interval)
    /\ (ev.calls = 1 /\ ev.sinceFire # Never) => ev.sinceFire >= ev.interval

\* a second firing of an exec_every site, exactly one interval after the
\* first, the clock having wrapped in between
C1_Witness ==
  /\ PollAt("a") /\ policy["a"] = "every"
  /\ ev.calls = 1 /\ ev.interval > 0 /\ ev.sinceFire = ev.interval
  /\ millis < ev.last

\* C2: a poll of an exec_every_if call site that finds the interval expired
\* sets last to its clock reading whatever the condition, and invokes the
\* callback iff the condition holds; a firing poll is at least the interval
\* later than the instant last was set, in particular later than a deadline
\* poll that found the condition false.
C2_EveryIfResetsAtDeadline ==
  \A s \in Sites : (PollAt(s) /\ policy[s] = "every_if") =>
    /\ Expired => /\ handle[s].last = millis
                  /\ lastTrue[s] = clock
                  /\ (ev.calls = 1) <=> ev.cond
    /\ ~Expired => handle[s].last = ev.last /\ ev.calls = 0
    /\ ev.calls = 1 => ev.elapsed >= ev.interval

\* an exec_every_if site fires one interval after a deadline poll that found
\* the condition false
C2_Witness ==
  /\ PollAt("a") /\ policy["a"] = "every_if"
  /\ ev.by = "miss" /\ ev.calls = 1 /\ ev.interval > 0
  /\ ev.elapsed = ev.interval

\* C3: a poll of an exec_throttled call site that finds the interval
\* expired evaluates the condition; if it is false last is unchanged and
\* the callback is not invoked, if it is true the callback is invoked, also
\* when earlier polls had been held back by the condition.
C3_ThrottledWaitsForCondition ==
  \A s \in Sites : (PollAt(s) /\ policy[s] = "throttled" /\ Expired) =>
    /\ ev.evalT = 1
    /\ ~ev.cond => handle[s].last = ev.last /\ ev.calls = 0 /\ waiting[s]
    /\ ev.cond => ev.calls = 1 /\ handle[s].last = millis

\* an exec_throttled site fires on a poll after polls that were held back,
\* later than one interval after last was set
C3_Witness ==
  /\ PollAt("a") /\ policy["a"] = "throttled"
  /\ ev.waited /\ ev.cond /\ ev.calls = 1
  /\ ev.interval > 0 /\ ev.elapsed > ev.interval

\* the conditions the entry point of policy p hands to the procedure
RunGiven(p)      == IF p \in {"every", "throttled"} THEN TRUE ELSE ev.cond
ThrottleGiven(p) == CASE p \in {"every", "every_if"} -> TRUE
                      [] p = "throttled" -> ev.cond
                      [] OTHER -> ev.cond2

\* C4: one poll sets last to its clock reading iff the interval has expired
\* and the throttle condition holds, and invokes the callback iff the run
\* condition holds as well; otherwise last is unchanged and the callback is
\* not invoked.  every, every_if and throttled are the procedure with
\* (run, throttle) = (true, true), (cond, true) and (true, cond).
C4_DecisionProcedure ==
  \A s \in Sites : PollAt(s) =>
    LET reset == Expired /\ ThrottleGiven(policy[s])
        run   == reset /\ RunGiven(policy[s])
    IN /\ handle[s].last = IF reset THEN millis ELSE ev.last
       /\ ev.calls = IF run THEN 1 ELSE 0

\* the general procedure resets the timer without invoking the callback
C4_Witness ==
  /\ PollAt("a") /\ policy["a"] = "every_if_throttled"
  /\ Expired /\ ev.cond2 /\ ~ev.cond
  /\ handle["a"].last = millis /\ handle["a"].last # ev.last /\ ev.calls = 0

\* C5: the Maybe a poll returns is present iff the poll invoked the
\* callback; when present its payload is what that invocation returned,
\* otherwise it is the empty Maybe.
C5_PresentIffInvoked ==
  \A s \in Sites : PollAt(s) =>
    LET m == maybe[ev.slot]
    IN /\ valid(m) <=> ev.calls = 1
       /\ valid(m) => m.val = ev.ret
       /\ retKind[s] = "value" /\ valid(m) => m.val \in Values
       /\ ~valid(m) => m.val = NoValue

\* a poll of a site with a void callback fired and returned a present Maybe
C5_Witness ==
  /\ PollAt("a") /\ retKind["a"] = "void"
  /\ ev.calls = 1 /\ valid(maybe[ev.slot])

\* the operations that give the variable ev.slot the contents of ev.src
Transfers == {"copy_ctor", "move_ctor", "copy_assign", "move_assign"}

\* C6: every Maybe object holds a handle of a call site, never null: the
\* Maybe a poll returns that of the polled site, the target of a copy or move
\* that of its source, and every other object (the source of a copy or
\* move, a forced Maybe) the handle it had.
C6_MaybeCarriesHandle ==
  [][\A k \in Slots : maybe'[k] # NoMaybe =>
       /\ maybe'[k].handle \in Sites
       /\ maybe'[k].handle =
            IF ev'.op = "poll" /\ ev'.slot = k THEN ev'.site
            ELSE IF ev'.op \in Transfers /\ ev'.slot = k THEN maybe[ev'.src].handle
            ELSE maybe[k].handle]_vars

\* the present Maybe of site b was moved into the variable that receives
\* the polls of site a; both objects refer to site b and the source is empty
C6_Witness ==
  /\ ev.op = "move_assign" /\ ev.slot = "m" /\ ev.src = "n"
  /\ maybe["m"].handle = "b" /\ maybe["m"].has
  /\ maybe["n"].handle = "b" /\ ~maybe["n"].has

\* C7: force() on an empty Maybe invokes the stored callback of the call
\* site of its handle once, whatever the timer says; afterwards the Maybe is
\* present and holds what the invocation returned, which force() returns.
C7_ForceOnEmptyInvokes ==
  [][\A k \in Slots : (ev'.op = "force" /\ ev'.slot = k /\ ~maybe[k].has) =>
       /\ ev'.calls = 1
       /\ ev'.callee = handle[maybe[k].handle].f
       /\ maybe'[k].has
       /\ maybe'[k].val = ev'.ret
       /\ ev'.out = ev'.ret
       /\ retKind[maybe[k].handle] = "value" => ev'.ret \in Values]_vars

\* an empty Maybe was forced right after the timer had been set, long before
\* the interval could expire, and holds the value returned
C7_Witness ==
  /\ ev.op = "force" /\ ev.calls = 1 /\ ev.ret = "y"
  /\ maybe["m"].has /\ maybe["m"].val = "y" /\ ev.out = "y"
  /\ clock > 0 /\ lastTrue["a"] = clock

\* C8: force() on a present Maybe does not invoke the callback, changes
\* neither the Maybe objects nor the call-site state and returns the payload
\* held; a force() that follows a force() of the same Maybe invokes nothing.
C8_ForceOnPresentIsNoOp ==
  [][/\ \A k \in Slots : (ev'.op = "force" /\ ev'.slot = k /\ maybe[k].has) =>
          /\ ev'.calls = 0
          /\ maybe' = maybe
          /\ handle' = handle
          /\ ev'.out = IF retKind[maybe[k].handle] = "void" THEN NoValue
                       ELSE maybe[k].val
     /\ (ev.op = "force" /\ ev'.op = "force" /\ ev'.slot = ev.slot) => ev'.calls = 0
    ]_vars

\* force() on a Maybe that a firing poll returned: no invocation, the payload
\* of the poll is returned
C8_Witness ==
  /\ ev.op = "force" /\ ev.calls = 0 /\ ev.out = "y"
  /\ maybe["m"].has /\ maybe["m"].val = "y"
  /\ lastBy["a"] = "fire"

\* C9: force() leaves the call-site state as it is, last included, so the
\* polls that follow decide as they would have without it.
C9_ForceKeepsTimer ==
  [][ev'.op = "force" =>
       /\ handle' = handle
       /\ clock' = clock]_vars

\* force() invoked the callback while the interval had long expired, and
\* last still is what it was
C9_Witness ==
  /\ ev.op = "force" /\ ev.calls = 1
  /\ handle["a"].last = ev.last /\ handle["a"].last # millis
  /\ clock - lastTrue["a"] >= MaxInterval

\* C10: exec::reset(h) sets last of the call site of h to the clock reading
\* and invokes nothing; a poll of a site at which less than the interval
\* has elapsed since last was set (by reset, later by anything else) returns
\* empty, so after a reset at t the site fires at t + interval at the
\* earliest.
C10_ResetRestartsInterval ==
  [][/\ \A s \in Sites : (ev'.op = "reset" /\ ev'.site = s) =>
          /\ handle'[s].last = clock % Modulus
          /\ clock' = clock
          /\ lastTrue'[s] = clock
          /\ ev'.calls = 0
          /\ maybe' = maybe
     /\ \A s \in Sites : (ev'.op = "poll" /\ ev'.site = s /\ handle[s].constructed) =>
          /\ (clock' < lastTrue[s] + ev'.interval) =>
                ev'.calls = 0 /\ ~maybe'[ev'.slot].has
          /\ (lastBy[s] = "reset" /\ ev'.calls = 1) =>
                clock' >= lastTrue[s] + ev'.interval
     /\ \A s \in Sites : lastTrue'[s] >= lastTrue[s]
    ]_vars

\* the first poll that fires after a reset, exactly one interval after it
C10_Witness ==
  /\ PollAt("a") /\ ev.by = "reset" /\ ev.calls = 1
  /\ ev.interval > 0 /\ ev.elapsed = ev.interval

\* C11: the elapsed time of a poll is (clock reading - last) in the width of
\* the clock: whenever the real time since last was set is less than one
\* wrap of the clock, dt is that real time, also when the clock wrapped in
\* between, so the poll decides, and the callback is handed the dt, as with
\* an unbounded clock.
C11_WrapSafeElapsed ==
  \A s \in Sites : (PollAt(s) /\ ev.elapsed < Modulus) =>
    /\ ev.dt = ev.elapsed
    /\ (ev.calls = 1) <=> /\ ev.elapsed >= ev.interval
                          /\ ThrottleGiven(policy[s])
                          /\ RunGiven(policy[s])
    /\ ev.calls = 1 => ev.arg = ev.elapsed

\* an exec_throttled site fires on a clock reading below last, the clock
\* having wrapped since last was set almost a full wrap ago
C11_Witness ==
  /\ PollAt("a") /\ policy["a"] = "throttled"
  /\ ev.now < ev.last /\ ev.elapsed = Modulus - 1
  /\ ev.calls = 1 /\ ev.arg = Modulus - 1

\* C12 as stated: a poll that passes an interval above zero invokes the
\* callback only if the site was polled before, and at the earliest one
\* interval after the clock reading of the first poll, taken as the reading
\* its handle was constructed with.
C12_FirstPollNeverFires ==
  [][(/\ ev'.op = "poll" /\ ev'.site = ObservedSite
      /\ ev'.interval > 0 /\ ev'.calls = 1) =>
       /\ handle[ObservedSite].constructed
       /\ clock' >= hist'.born + ev'.interval]_vars

\* C12, amended: a first poll reads the clock twice, once to construct the
\* handle and once for the decision, and invokes the callback only if the
\* clock advanced by at least the interval in between; every poll that
\* invokes the callback is at least its interval later than the
\* construction of the handle.
C12_FirstFiringAfterInterval ==
  [][(ev'.op = "poll" /\ ev'.site = ObservedSite /\ ev'.calls = 1) =>
       /\ clock' >= hist'.born + ev'.interval
       /\ ~handle[ObservedSite].constructed => clock' - clock >= ev'.interval]_vars

\* the first invocation at the site, by a poll exactly one interval after
\* the handle was constructed
C12_Witness ==
  /\ PollAt(ObservedSite) /\ ev.calls = 1 /\ ev.sinceFire = Never
  /\ ev.by = "ctor" /\ ev.interval = MaxInterval
  /\ clock = hist.born + ev.interval

\* the poll just performed was poll n of the scenario counted by stage
ScenarioPoll(stage, n) == PollAt(ObservedSite) /\ stage = n

\* C13 as stated, in units of 500 ms: an exec_every site with interval 2
\* polled only at 1, 2, 3 and 4 returns empty at 1, invokes the callback
\* with dt = 2 at 2, returns empty at 3 and invokes the callback with
\* dt = 2 at 4.
C13_ScenarioFromClockStart ==
  policy[ObservedSite] = "every" =>
    /\ ScenarioPoll(hist.s13, 1) => ev.calls = 0 /\ ~valid(maybe[ev.slot])
    /\ ScenarioPoll(hist.s13, 2) => ev.calls = 1 /\ ev.arg = 2
    /\ ScenarioPoll(hist.s13, 3) => ev.calls = 0 /\ ~valid(maybe[ev.slot])
    /\ ScenarioPoll(hist.s13, 4) => ev.calls = 1 /\ ev.arg = 2

\* C13, amended: the poll at 1 constructs the handle with last = 1 and
\* returns empty; the poll at 2 returns empty, the poll at 3 invokes the
\* callback with dt = 2 and the poll at 4 returns empty.
C13_ScenarioFromFirstPoll ==
  policy[ObservedSite] = "every" =>
    /\ ScenarioPoll(hist.s13, 1) => /\ ev.calls = 0 /\ ~valid(maybe[ev.slot])
                                    /\ lastTrue[ObservedSite] = 1
    /\ ScenarioPoll(hist.s13, 2) => ev.calls = 0 /\ ~valid(maybe[ev.slot])
    /\ ScenarioPoll(hist.s13, 3) => /\ ev.calls = 1 /\ ev.arg = 2
                                    /\ valid(maybe[ev.slot])
    /\ ScenarioPoll(hist.s13, 4) => ev.calls = 0 /\ ~valid(maybe[ev.slot])

\* the fourth poll of the scenario, one unit after the poll that fired
C13_Witness ==
  /\ policy[ObservedSite] = "every" /\ ScenarioPoll(hist.s13, 4)
  /\ clock = 4 /\ lastFire[ObservedSite] = 3 /\ ev.elapsed = 1

\* C14 as stated, in units of 500 ms: an exec_throttled site with interval
\* 1 polled only at 1 with the condition false and at 2 or 3 (1200 ms) with
\* the condition true neither invokes the callback nor resets the timer at
\* 1; the second poll invokes the callback with dt = its clock reading, the
\* time since the clock started, and sets last to its clock reading.
C14_ScenarioFromClockStart ==
  policy[ObservedSite] = "throttled" =>
    /\ ScenarioPoll(hist.s14, 1) => ev.calls = 0 /\ ev.evalR = 0
    /\ ScenarioPoll(hist.s14, 2) => /\ ev.calls = 1 /\ ev.arg = clock
                                    /\ handle[ObservedSite].last = millis

\* C14, amended: the poll at 1 constructs the handle with last = 1, finds
\* nothing elapsed and does not evaluate the condition; the second poll
\* invokes the callback with dt = the time since the first poll and sets
\* last to its clock reading.
C14_ScenarioFromFirstPoll ==
  policy[ObservedSite] = "throttled" =>
    /\ ScenarioPoll(hist.s14, 1) => /\ ev.calls = 0 /\ ev.evalR = 0 /\ ev.evalT = 0
                                    /\ lastTrue[ObservedSite] = 1
                                    /\ lastBy[ObservedSite] = "ctor"
    /\ ScenarioPoll(hist.s14, 2) => /\ ev.calls = 1 /\ ev.arg = clock - 1
                                    /\ handle[ObservedSite].last = millis
                                    /\ lastTrue[ObservedSite] = clock

\* the second poll of the scenario at 3: the callback is handed dt = 2
C14_Witness ==
  /\ policy[ObservedSite] = "throttled" /\ ScenarioPoll(hist.s14, 2)
  /\ clock = 3 /\ ev.calls = 1 /\ ev.arg = 2

\* C15: the callback of a call site is the callable passed on its first
\* poll: no operation replaces it once the handle is constructed, and every
\* invocation, by a firing poll or by force(), calls it, whatever callable
\* the poll passes.
C15_CallbackCapturedOnce ==
  [][\A s \in Sites :
       /\ handle[s].constructed => handle'[s].f = handle[s].f
       /\ (ev'.op = "poll" /\ ev'.site = s /\ ~handle[s].constructed) =>
             handle'[s].f = ev'.passed
       /\ (ev'.op \in {"poll", "force"} /\ ev'.site = s /\ ev'.calls = 1) =>
             ev'.callee = handle'[s].f]_vars

\* a later poll passes another callable and fires: the callable of the
\* first poll is invoked
C15_Witness ==
  /\ PollAt("a") /\ ev.passed = "g" /\ ev.calls = 1
  /\ ev.callee = "f" /\ handle["a"].f = "f"

\* C16: a poll, a force() or a reset of one call site leaves the handle of
\* every other call site, last and the stored callback, as it is; the
\* decision of a poll is a function of the handle of the polled site, the
\* clock reading and the arguments of the poll alone.
C16_SitesIndependent ==
  [][\A s \in Sites : (ev'.op \in {"poll", "force", "reset"} /\ ev'.site = s) =>
       /\ \A o \in Sites \ {s} : handle'[o] = handle[o]
       /\ (ev'.op = "poll" /\ handle[s].constructed) =>
            LET now == Read(MillisOf(s), clock')
                due == dt(now, handle[s].last) >= ev'.interval
                thr == due /\ (policy[s] = "throttled" => ev'.cond)
                run == thr /\ (policy[s] = "every_if" => ev'.cond)
            IN /\ ev'.calls = IF run THEN 1 ELSE 0
               /\ handle'[s].last = IF thr THEN now ELSE handle[s].last
     ]_vars

\* site a was reset after site b had fired at an earlier clock reading: the
\* timers of the two sites differ
C16_Witness ==
  /\ ev.op = "reset" /\ ev.site = "a"
  /\ handle["b"].constructed /\ lastBy["b"] = "fire"
  /\ handle["a"].last # handle["b"].last

\* C17 as stated: the dt handed to the callback by a firing poll is the
\* time elapsed since the previous invocation of the callback of the site
\* (as long as that is less than one wrap of the clock), whatever polls,
\* skipped deadlines and resets lie in between.
C17_DtSincePreviousRun ==
  \A s \in Sites :
    (PollAt(s) /\ ev.calls = 1 /\ ev.sinceFire # Never /\ ev.sinceFire < Modulus) =>
      ev.arg = ev.sinceFire

\* C18: a poll of an exec_every_if or exec_throttled call site that invokes
\* the callback is at least its interval later than the previous poll of
\* the site that invoked it, whatever the conditions and the poll times
\* were and whatever resets and force() calls lie in between.
C18_AtMostOncePerInterval ==
  \A s \in Sites :
    (/\ PollAt(s) /\ policy[s] \in {"every_if", "throttled"}
     /\ ev.calls = 1 /\ ev.sinceFire # Never) =>
       ev.sinceFire >= ev.interval

\* two consecutive firing polls of an exec_throttled site exactly one
\* interval apart
C18_Witness ==
  /\ PollAt("a") /\ policy["a"] = "throttled" /\ ev.calls = 1
  /\ ev.by = "fire" /\ ev.interval = MaxInterval /\ ev.sinceFire = ev.interval

\* the step just taken invoked the callback of site s, or reset its timer
RanOrReset(s) ==
  /\ ev'.site = s
  /\ \/ ev'.op \in {"poll", "force"} /\ ev'.calls = 1
     \/ ev'.op = "reset"

\* C19 as stated: once the handle of a call site is constructed, last
\* changes only in a poll that invokes the callback and in a reset, and
\* after every invocation of the callback and every reset last is the clock
\* reading of that instant.
C19_LastIsLatestRunOrReset ==
  [][\A s \in Sites : handle[s].constructed =>
       /\ handle'[s].last # handle[s].last =>
            /\ RanOrReset(s)
            /\ ev'.op # "force"
       /\ RanOrReset(s) => handle'[s].last = clock' % Modulus]_vars

\* C19, amended: once the handle of a call site is constructed, last changes
\* only in a poll that finds the interval expired and the throttle
\* condition true, whether or not it invokes the callback, and in a reset;
\* each of them sets last to its clock reading, and force() leaves it as it
\* is.  So last is the clock reading of the latest of the construction, such
\* a poll and a reset.
C19_LastSetByDuePollOrReset ==
  [][\A s \in Sites :
       /\ (handle[s].constructed /\ handle'[s].last # handle[s].last) =>
            /\ ev'.site = s
            /\ \/ ev'.op = "poll" /\ ev'.evalR = 1
               \/ ev'.op = "reset"
       /\ (ev'.site = s /\ (ev'.op = "reset" \/ (ev'.op = "poll" /\ ev'.evalR = 1))) =>
            /\ handle'[s].last = clock' % Modulus
            /\ lastTrue'[s] = clock'
       /\ (ev'.site = s /\ ev'.op = "force") => handle'[s] = handle[s]
       /\ handle'[s].constructed =>
            /\ handle'[s].last = lastTrue'[s] % Modulus
            /\ lastBy'[s] \in {"ctor", "fire", "miss", "reset"}]_vars

\* an exec_every_if site whose latest deadline poll found the condition
\* false: last was set by that poll, later than the latest invocation
C19_Witness ==
  /\ PollAt("a") /\ policy["a"] = "every_if"
  /\ ev.calls = 0 /\ ev.evalR = 1 /\ ev.by = "fire"
  /\ lastBy["a"] = "miss" /\ lastTrue["a"] > lastFire["a"]
  /\ handle["a"].last = millis /\ handle["a"].last # ev.last

\* C20 as stated: a move construction, or a move assignment between two
\* objects, gives the destination the presence, the payload and the handle
\* of the source and leaves the source empty, for a Maybe of a value or
\* reference type and for Maybe<void>.
C20_MoveEmptiesSource ==
  [][(ev'.op \in {"move_ctor", "move_assign"} /\ ev'.slot # ev'.src) =>
       /\ maybe'[ev'.slot].has = maybe[ev'.src].has
       /\ maybe'[ev'.slot].val = maybe[ev'.src].val
       /\ maybe'[ev'.slot].handle = maybe[ev'.src].handle
       /\ ~valid(maybe'[ev'.src])]_vars

\* C21 as stated: value(), operator* and operator-> on an empty Maybe are
\* detected as an error and never yield a payload.
C21_EmptyAccessFailsFast ==
  (ev.op = "value" /\ ~valid(maybe[ev.slot])) => ev.out \notin Values

\* the operation just performed was a poll of the observed site that
\* invoked the callback
Fired == PollAt(ObservedSite) /\ ev.calls = 1

\* C22: an exec_every call site polled forever with one interval, while
\* time keeps passing and consecutive polls are less than one wrap of the
\* clock minus the interval apart, invokes the callback again and again:
\* every poll is followed by a poll that invokes it.
C22_EveryFiresForever ==
  policy[ObservedSite] = "every" =>
    /\ []<>Fired
    /\ PollAt(ObservedSite) ~> Fired

\* an exec_every site polled with one interval fires after the clock has
\* wrapped
C22_Witness ==
  /\ policy[ObservedSite] = "every" /\ Fired
  /\ hist.fixed = MaxInterval /\ ev.interval = MaxInterval
  /\ ev.now < ev.last /\ ev.dt >= ev.interval

\* C23: an exec_throttled call site polled forever while time keeps
\* passing (consecutive polls less than one wrap of the clock minus the
\* interval apart), whose condition is true at every poll from some point
\* on, invokes the callback after that point; a poll at which the elapsed
\* time has reached the interval and the condition is true invokes it, so
\* the first such poll does.
C23_ThrottledFiresOnceReady ==
  policy[ObservedSite] = "throttled" =>
    /\ <>[](PollAt(ObservedSite) => ev.cond) => []<>Fired
    /\ []((PollAt(ObservedSite) /\ ev.dt >= ev.interval /\ ev.cond) => ev.calls = 1)

\* an exec_throttled site fires on the first poll with a true condition,
\* after polls past the interval that the condition held back
C23_Witness ==
  /\ policy[ObservedSite] = "throttled" /\ Fired
  /\ ev.waited /\ ev.cond /\ ev.dt > ev.interval
  /\ hist.fixed > 0 /\ ev.interval = hist.fixed

\* C24: the handle keeps no interval; a poll reaches its deadline iff the
\* elapsed time is at least the interval passed to that poll, whatever the
\* interval of the previous poll was, and an exec_every poll then invokes
\* the callback.
C24_IntervalPerPoll ==
  [][(ev'.op = "poll" /\ ev'.site = ObservedSite /\ handle[ObservedSite].constructed) =>
       LET e == dt(clock' % Modulus, handle[ObservedSite].last)
       IN /\ ev'.dt = e
          /\ ev'.evalT = (IF e >= ev'.interval THEN 1 ELSE 0)
          /\ policy[ObservedSite] = "every" =>
               ev'.calls = (IF e >= ev'.interval THEN 1 ELSE 0)
          /\ DOMAIN handle'[ObservedSite] = {"constructed", "last", "f", "millis"}]_vars

\* an exec_every poll fires on an elapsed time that has reached its own
\* interval but not the larger interval of the poll made right before it
C24_Witness ==
  /\ policy[ObservedSite] = "every" /\ Fired
  /\ hist.prev # Never /\ ev.interval < hist.prev
  /\ ev.interval > 0 /\ ev.dt >= ev.interval /\ ev.dt < hist.prev

\* C25: a call site reads time from its own clock function only: the
\* construction of the handle on the first poll, the clock reading of every
\* poll and a reset through the handle all take the reading of the clock
\* function the site was instantiated with, so that last always is a
\* reading of that function.
C25_SiteClockOnly ==
  [][\A s \in Sites :
       /\ (ev'.op = "poll" /\ ev'.site = s) =>
            /\ ev'.now = Read(MillisOf(s), clock')
            /\ ~handle[s].constructed => ev'.last = Read(MillisOf(s), clock)
            /\ ev'.dt = dt(ev'.now, ev'.last)
       /\ (ev'.op = "reset" /\ ev'.site = s) =>
            handle'[s].last = Read(MillisOf(s), clock)
       /\ handle'[s].constructed =>
            /\ handle'[s].millis = MillisOf(s)
            /\ handle'[s].last = Read(MillisOf(s), lastTrue'[s])]_vars

\* the site instantiated with the alternate counter was reset: last is the
\* reading of that counter, which millis does not show
C25_Witness ==
  /\ ev.op = "reset" /\ ev.site = "b" /\ MillisOf("b") = "altMillis"
  /\ handle["b"].last = Read("altMillis", clock)
  /\ handle["b"].last # millis /\ handle["b"].last # ev.last

\* C26: a poll at which the elapsed time is below the interval leaves the
\* handle of the site as it is (as just constructed, on a first poll), last
\* and the stored callback included, invokes nothing, evaluates neither
\* condition and returns the empty Maybe of the site; nothing else changes
\* but the clock.
C26_EarlyPollChangesNothing ==
  [][\A s \in Sites : (ev'.op = "poll" /\ ev'.site = s /\ ev'.dt < ev'.interval) =>
       /\ handle[s].constructed => handle' = handle
       /\ ~handle[s].constructed =>
            handle' = [handle EXCEPT ![s] = LocalHandle(MillisOf(s), ev'.passed)]
       /\ ev'.calls = 0 /\ ev'.evalT = 0 /\ ev'.evalR = 0
       /\ maybe' = [maybe EXCEPT ![ev'.slot] = empty(s)]
       /\ ~valid(maybe'[ev'.slot])
       /\ lastTrue'[s] = (IF handle[s].constructed THEN lastTrue[s] ELSE clock)]_vars

\* a poll of the general procedure with both conditions true, after an
\* earlier firing and before the interval has expired
C26_Witness ==
  /\ PollAt("a") /\ policy["a"] = "every_if_throttled"
  /\ ev.cond /\ ev.cond2 /\ ev.by = "fire"
  /\ ev.dt > 0 /\ ev.dt < ev.interval
  /\ ev.calls = 0 /\ handle["a"].last = ev.last

\* the steps of the poll that has just been made are exactly these
Steps(seq) == ev.steps = seq

\* C27: a poll that reaches the deadline evaluates the throttle condition,
\* then (when it is true) sets last to the reading taken at the start of
\* the poll, then evaluates the run condition, then (when it is true) invokes
\* the callback: in this order, each at most once, the run condition never
\* when the throttle condition is false, and all three are given the elapsed
\* time as it was before the reset.
C27_StepsInOrder ==
  \A s \in Sites : (PollAt(s) /\ ev.dt >= ev.interval) =>
    LET d == dt(ev.now, ev.last)
        thr == ThrottleGiven(policy[s])
        run == RunGiven(policy[s])
    IN /\ ~thr => Steps(<< <<"throttle", d>> >>)
       /\ (thr /\ ~run) =>
            Steps(<< <<"throttle", d>>, <<"reset", ev.now>>, <<"run", d>> >>)
       /\ (thr /\ run) =>
            Steps(<< <<"throttle", d>>, <<"reset", ev.now>>, <<"run", d>>,
                     <<"call", d>> >>)
       /\ ev.evalT = 1 /\ ev.evalR = (IF thr THEN 1 ELSE 0)
       /\ ev.calls = (IF thr /\ run THEN 1 ELSE 0)
       /\ ev.calls = 1 => ev.arg = d /\ handle[s].last = ev.now
       /\ thr => handle[s].last = ev.now

\* a poll of the general procedure that reaches the deadline with both
\* conditions true, a nonzero elapsed time and a clock reading unlike the
\* old timer value
C27_Witness ==
  /\ PollAt("a") /\ policy["a"] = "every_if_throttled"
  /\ ev.cond /\ ev.cond2 /\ ev.dt >= ev.interval /\ ev.dt > 0
  /\ ev.now # ev.last /\ ev.calls = 1 /\ ev.arg = ev.dt
  /\ Len(ev.steps) = 4

\* the invocations of the callback among the steps of the poll just made
CallSteps == {i \in 1..Len(ev.steps) : ev.steps[i][1] = "call"}

\* C28: a poll invokes the callback at most once, however long it has been;
\* a firing poll leaves last at its own clock reading, so that no firing is
\* closer than the interval to the firing before it, and its one invocation
\* is given the whole time elapsed since last was set (modulo the width of
\* the counter).
C28_NoCatchUp ==
  \A s \in Sites : PollAt(s) =>
    /\ ev.calls <= 1 /\ Cardinality(CallSteps) = ev.calls
    /\ ev.calls = 1 =>
         /\ handle[s].last = ev.now /\ lastTrue[s] = clock
         /\ ev.elapsed >= ev.interval
         /\ ev.sinceFire # Never => ev.sinceFire >= ev.interval
         /\ ev.arg = ev.elapsed % Modulus

\* a firing poll made two or more whole intervals after the firing before
\* it: one invocation, given the whole gap
C28_Witness ==
  /\ PollAt("a") /\ ev.by = "fire" /\ ev.interval >= 1
  /\ ev.elapsed >= 2 * ev.interval /\ ev.elapsed < Modulus
  /\ ev.calls = 1 /\ ev.arg = ev.elapsed /\ ev.sinceFire = ev.elapsed
  /\ handle["a"].last = ev.now

\* C29: a callback invoked through force() is given the argument force was
\* written with, 0 when it was written without one, whatever time has
\* elapsed on the timer of the call site; force leaves the clock and every
\* handle, last included, as they are.
C29_ForcePassesItsArgument ==
  [][ev'.op = "force" =>
       /\ ev'.calls = 1 =>
            ev'.arg = (IF ev'.given = Omitted THEN 0 ELSE ev'.given)
       /\ handle' = handle /\ lastTrue' = lastTrue /\ clock' = clock
       /\ ev'.last = handle'[ev'.site].last]_vars

\* force() without an argument runs the callback while the timer of the
\* call site shows a nonzero elapsed time: the callback is given 0
C29_Witness ==
  /\ ev.op = "force" /\ ev.calls = 1 /\ ev.given = Omitted /\ ev.arg = 0
  /\ handle[ev.site].constructed
  /\ dt(Read(handle[ev.site].millis, clock), handle[ev.site].last) > 0

\* C30: with interval 0 every poll reaches the deadline: every fires on
\* every poll, the first poll of the site included, and every_if and
\* throttled fire on exactly the polls whose condition is true (the general
\* procedure: on exactly those where both conditions are true).
C30_IntervalZeroAlwaysDue ==
  \A s \in Sites : (PollAt(s) /\ ev.interval = 0) =>
    /\ ev.dt >= ev.interval /\ ev.evalT = 1
    /\ policy[s] = "every" => ev.calls = 1
    /\ policy[s] \in {"every_if", "throttled"} => (ev.calls = 1 <=> ev.cond)
    /\ policy[s] = "every_if_throttled" => (ev.calls = 1 <=> (ev.cond /\ ev.cond2))
    /\ ev.calls = 1 => valid(maybe[ev.slot])

\* the very first poll of an every site, interval 0, no time elapsed since
\* the handle was constructed: it fires
C30_Witness ==
  /\ PollAt("a") /\ policy["a"] = "every" /\ ev.interval = 0
  /\ ev.by = "ctor" /\ ev.dt = 0 /\ ev.calls = 1 /\ valid(maybe[ev.slot])

\* the operation just performed copied a Maybe into another variable
Copied == ev.op \in {"copy_ctor", "copy_assign"} /\ ev.slot # ev.src

\* C33: copy construction and copy assignment leave the source as it is and
\* give the destination its presence, payload and handle; the copies are
\* independent afterwards: force() on an empty Maybe invokes the callback of
\* its call site once and makes that variable present and no other, so a
\* force on the copy of an empty Maybe leaves the source empty, and a force
\* on the source after it invokes the callback once more.
C33_CopiesAreIndependent ==
  [][/\ (ev'.op \in {"copy_ctor", "copy_assign"} /\ ev'.slot # ev'.src) =>
          /\ maybe'[ev'.src] = maybe[ev'.src]
          /\ maybe'[ev'.slot].has = maybe[ev'.src].has
          /\ maybe'[ev'.slot].handle = maybe[ev'.src].handle
          /\ maybe[ev'.src].has => maybe'[ev'.slot].val = maybe[ev'.src].val
          /\ \A j \in Slots \ {ev'.slot} : maybe'[j] = maybe[j]
          /\ handle' = handle
     /\ ev'.op = "force" =>
          /\ \A j \in Slots \ {ev'.slot} : maybe'[j] = maybe[j]
          /\ ~valid(maybe[ev'.slot]) =>
               /\ ev'.calls = 1 /\ valid(maybe'[ev'.slot])
               /\ ev'.callee = handle[ev'.site].f
          /\ valid(maybe[ev'.slot]) => ev'.calls = 0
     /\ (Copied /\ ~valid(maybe[ev.slot]) /\ ev'.op = "force"
           /\ ev'.slot = ev.slot) =>
          /\ ev'.calls = 1 /\ valid(maybe'[ev.slot])
          /\ ~valid(maybe'[ev.src]) /\ maybe'[ev.src] = maybe[ev.src]
     /\ (ev.op = "force" /\ ev.calls = 1 /\ ev'.op = "force"
           /\ ev'.slot # ev.slot /\ ev'.site = ev.site
           /\ ~valid(maybe[ev'.slot])) =>
          /\ ev'.calls = 1
          /\ valid(maybe'[ev.slot]) /\ valid(maybe'[ev'.slot])]_vars

\* two variables hold an empty Maybe of one call site whose callback
\* returns a value; the one has just been forced and is present, the other
\* is still empty
C33_Witness ==
  /\ ev.op = "force" /\ ev.slot = "n" /\ ev.calls = 1
  /\ valid(maybe["n"]) /\ maybe["m"] # NoMaybe /\ ~valid(maybe["m"])
  /\ getHandle(maybe["m"]) = getHandle(maybe["n"])
  /\ KindOf(maybe["n"]) = "value"

\* C32: at an exec_every call site that is only polled, the dt values given
\* to the callback so far add up, modulo the width of the counter, to last
\* minus the reading last was constructed with at the first poll; in real
\* time, to the time from the construction of the handle to the latest
\* firing.
C32_NoElapsedTimeLost ==
  LET s == ObservedSite
  IN handle[s].constructed =>
       /\ hist.first # Never
       /\ hist.sum = (handle[s].last - hist.first) % Modulus
       /\ hist.sum = (lastTrue[s] - hist.born) % Modulus
       /\ lastFire[s] # Never => hist.sum = (lastFire[s] - hist.born) % Modulus
       /\ lastFire[s] = Never => hist.sum = 0 /\ handle[s].last = hist.first

\* a third or later firing, after more real time than the counter holds
\* before it wraps, with a nonzero sum
C32_Witness ==
  /\ PollAt(ObservedSite) /\ ev.calls = 1 /\ ev.by = "fire" /\ ev.arg > 0
  /\ lastFire[ObservedSite] - hist.born > Modulus
  /\ hist.sum > 0 /\ hist.sum # ev.arg
  /\ hist.sum = (handle[ObservedSite].last - hist.first) % Modulus

\* the polls on the stack that are executing the callback
InCallback == {i \in 1..Len(stack) : Head(stack[i].todo) = "call"}

\* C31: a poll of a call site made from inside the run condition or the
\* callback of a poll of the same site, with an interval I > 0 and less
\* than I of real time after the enclosing poll read the clock, finds less
\* than I elapsed, evaluates no condition, does not invoke the callback and
\* returns at once, empty; so no such poll is ever found executing its run
\* condition or its callback inside another poll, and no callback of such
\* a poll runs inside the callback.
C31_NestedPollReturnsEmpty ==
  /\ \A s \in Sites :
       (PollAt(s) /\ ev.depth >= 1 /\ ev.interval > 0 /\ ev.since < ev.interval) =>
         /\ ev.dt < ev.interval
         /\ ev.steps = <<>> /\ ev.evalT = 0 /\ ev.calls = 0
         /\ Len(stack) = ev.depth
         /\ ev.dt = dt(ev.now, handle[s].last)
  /\ \A j \in 1..Len(stack) : ~stack[j].early
  /\ \A j \in 1..Len(stack) : stack[j].todo # <<>> /\ Head(stack[j].todo) \in Reentrant

\* a poll made from inside the callback of the general procedure, both
\* conditions true, some time after the enclosing poll but less than its
\* interval: it returned at once and the callback is still running once
C31_Witness ==
  /\ PollAt("a") /\ policy["a"] = "every_if_throttled" /\ ev.cond /\ ev.cond2
  /\ ev.depth = 1 /\ ev.interval > 0 /\ ev.since > 0 /\ ev.since < ev.interval
  /\ ev.calls = 0 /\ Len(stack) = 1 /\ InCallback = {1}

====
